---- MODULE Spec2Model ----
(***************************************************************************)
(* Model of the HlaPrint HubSpot extension cards.                          *)
(*                                                                         *)
(* The repository holds two implementations of the CRM card, which share   *)
(* their state and their handlers and differ in the HTTP wrapper and in    *)
(* the catch blocks:                                                       *)
(*   HlaPrintCard      (src/unnamed/part_000)                              *)
(*   HlaPrintCardView  (src/unnamed/part_001)                              *)
(* The variable `card` says which of the two is mounted; it never changes. *)
(* The settings page (src/.../app/settings/HlaPrintSettings.tsx) is a      *)
(* component of its own; its state stands beside the card's, and a         *)
(* specification runs the handlers of one of the two components.           *)
(*                                                                         *)
(* JavaScript strings are TLA+ strings, handled character by character     *)
(* (Len, SubSeq, \o); the sign <= stands for U+2264 in the messages.  A    *)
(* JavaScript number is a record [nan, val]: NaN or an integer (the typed  *)
(* alphabet has no '.', so no fraction can arise).                         *)
(* A handler suspended at `await hubspot.fetch(...)` is an element of      *)
(* `inflight`; its resumption runs to the end of the handler in one step,  *)
(* as the microtask queue does.                                            *)
(***************************************************************************)
EXTENDS Integers, Sequences, FiniteSets, TLC

VARIABLES
    card,        \* which component is mounted
    stage,       \* useState "login" | "ready" | "sending"
    toast,       \* useState {type, msg} | null
    email,       \* useState string
    password,    \* useState string
    token,       \* useState string
    deviceName,  \* useState string
    fileUrl,     \* useState string
    copies,      \* useState number
    color,       \* useState boolean
    duplex,      \* useState boolean
    pageSize,    \* useState "A4" | "A3" | "Letter"
    orientation, \* useState "auto" | "portrait" | "landscape"
    rangeStart,  \* useState string
    rangeEnd,    \* useState string
    inflight,    \* handlers suspended at await hubspot.fetch, oldest first,
                 \* each with the request it made
    settingsEmail,    \* SettingsPage: useState string (email)
    settingsPassword, \* SettingsPage: useState string (password)
    busy,             \* SettingsPage: useState boolean
    status,           \* SettingsPage: useState {type, msg} | null
    connecting        \* SettingsPage: connect handlers suspended at await
                      \* hubspot.fetch, oldest first, each with its request

vars == <<card, stage, toast, email, password, token, deviceName, fileUrl,
          copies, color, duplex, pageSize, orientation, rangeStart, rangeEnd,
          inflight, settingsEmail, settingsPassword, busy, status,
          connecting>>

form == <<deviceName, fileUrl, copies, color, duplex, pageSize, orientation,
          rangeStart, rangeEnd>>

settings == <<settingsEmail, settingsPassword, busy, status, connecting>>

-----------------------------------------------------------------------------
(* Bounds *)

\* longest page-range string given to the validator as a pure function
MaxRangeLen == 2
\* handlers suspended at an await at the same time
MaxInFlight == 2

-----------------------------------------------------------------------------
(* JavaScript strings and numbers *)

Min(a, b) == IF a < b THEN a ELSE b
Max(a, b) == IF a > b THEN a ELSE b

\* s.slice(0, n)
Slice(s, n) == SubSeq(s, 1, Min(n, Len(s)))

\* a string of n copies of the character ch
RECURSIVE Repeat(_, _)
Repeat(ch, n) ==
    IF n = 0 THEN ""
    ELSE LET half == Repeat(ch, n \div 2)
         IN  half \o half \o (IF n % 2 = 1 THEN ch ELSE "")

\* all strings over the characters of alphabet with length at most n
RECURSIVE StringsUpTo(_, _)
StringsUpTo(alphabet, n) ==
    IF n = 0 THEN {""}
    ELSE LET shorter == StringsUpTo(alphabet, n - 1)
         IN  shorter \cup {s \o ch : s \in shorter, ch \in alphabet}

\* haystack.includes(needle)
Includes(haystack, needle) ==
    \E i \in 1..(Len(haystack) - Len(needle) + 1) :
        SubSeq(haystack, i, i + Len(needle) - 1) = needle

IsSpace(ch) == ch = " "

RECURSIVE TrimStart(_)
TrimStart(s) ==
    IF Len(s) > 0 /\ IsSpace(SubSeq(s, 1, 1))
    THEN TrimStart(SubSeq(s, 2, Len(s)))
    ELSE s

RECURSIVE TrimEnd(_)
TrimEnd(s) ==
    IF Len(s) > 0 /\ IsSpace(SubSeq(s, Len(s), Len(s)))
    THEN TrimEnd(SubSeq(s, 1, Len(s) - 1))
    ELSE s

\* String.prototype.trim
Trim(s) == TrimEnd(TrimStart(s))

NaN == [nan |-> TRUE, val |-> 0]
Num(n) == [nan |-> FALSE, val |-> n]

Digits == <<"0", "1", "2", "3", "4", "5", "6", "7", "8", "9">>

IsDigit(ch) == \E d \in 1..10 : Digits[d] = ch
DigitVal(ch) == (CHOOSE d \in 1..10 : Digits[d] = ch) - 1

AllDigits(s) == \A i \in 1..Len(s) : IsDigit(SubSeq(s, i, i))

RECURSIVE DecimalVal(_)
DecimalVal(s) ==
    IF Len(s) = 0 THEN 0
    ELSE 10 * DecimalVal(SubSeq(s, 1, Len(s) - 1))
         + DigitVal(SubSeq(s, Len(s), Len(s)))

\* Number(s) for a string s: surrounding white space is dropped, the empty
\* string is 0, an optionally signed run of decimal digits is its value and
\* anything else over the typed alphabet is NaN.
ToNumber(s) ==
    LET t == Trim(s)
        sign == IF Len(t) > 0 THEN SubSeq(t, 1, 1) ELSE ""
        rest == IF sign \in {"-", "+"} THEN SubSeq(t, 2, Len(t)) ELSE t
    IN  IF Len(t) = 0 THEN Num(0)
        ELSE IF Len(rest) > 0 /\ AllDigits(rest)
             THEN Num(IF sign = "-" THEN 0 - DecimalVal(rest)
                                     ELSE DecimalVal(rest))
             ELSE NaN

\* Number.isInteger(x)
IsInteger(x) == ~x.nan

\* x < y and x > y on numbers: every comparison with NaN is false
Lt(x, y) == ~x.nan /\ ~y.nan /\ x.val < y.val
Gt(x, y) == ~x.nan /\ ~y.nan /\ x.val > y.val

\* truthiness of a string and of a number
Truthy(s) == Len(s) > 0
TruthyNum(x) == ~x.nan /\ x.val # 0

-----------------------------------------------------------------------------
(* Values decoded from JSON, and the response bodies the server is modelled *)
(* to send.  JSONparse and JSONstringify are tabulated on these texts.      *)

JSObj(f) == [t |-> "obj", f |-> f]
JSStr(s) == [t |-> "str", s |-> s]
JSNull == [t |-> "null"]

\* v?.k is neither undefined nor null
Has(v, k) == v.t = "obj" /\ k \in DOMAIN v.f
\* v?.k ?? dflt
GetOr(v, k, dflt) == IF Has(v, k) THEN v.f[k] ELSE dflt
\* v?.k is truthy
HasTruthy(v, k) == Has(v, k) /\ Truthy(v.f[k])

BODY_TOKEN1 == "{\"token\":\"T1\",\"status\":\"ok\"}"
BODY_TOKEN2 == "{\"message\":\"ok\",\"token\":\"T2\"}"
BODY_NOTOKEN == "{\"status\":\"ok\"}"
BODY_EMPTYTOKEN == "{\"token\":\"\"}"
BODY_JOB == "{\"transaction_id\":\"TX1\",\"code\":\"C7\"}"
BODY_MESSAGE == "{\"message\":\"Unauthenticated.\"}"
BODY_FAILURE == "{ \"status\": \"FAILURE\" }"
BODY_SUCCESS == "{\"status\":\"SUCCESS\",\"message\":\"ok\"}"
BODY_REFUSED == "{\"status\":\"FAILURE\",\"message\":\"Bad credentials\"}"
BODY_NULL == "null"
BODY_TEXT == "Internal error"
BODY_NONE == ""
\* a body one character longer than the excerpt hsFetch keeps
EXCERPT == 400
BODY_LONG == Repeat("x", EXCERPT) \o "y"

JsonTable ==
    << <<BODY_TOKEN1, JSObj([token |-> "T1", status |-> "ok"]),
         BODY_TOKEN1>>,
       <<BODY_TOKEN2, JSObj([message |-> "ok", token |-> "T2"]),
         BODY_TOKEN2>>,
       <<BODY_NOTOKEN, JSObj([status |-> "ok"]), BODY_NOTOKEN>>,
       <<BODY_EMPTYTOKEN, JSObj([token |-> ""]), BODY_EMPTYTOKEN>>,
       <<BODY_JOB, JSObj([transaction_id |-> "TX1", code |-> "C7"]),
         BODY_JOB>>,
       <<BODY_MESSAGE, JSObj([message |-> "Unauthenticated."]),
         BODY_MESSAGE>>,
       <<BODY_FAILURE, JSObj([status |-> "FAILURE"]),
         "{\"status\":\"FAILURE\"}">>,
       <<BODY_SUCCESS, JSObj([status |-> "SUCCESS", message |-> "ok"]),
         BODY_SUCCESS>>,
       <<BODY_REFUSED,
         JSObj([status |-> "FAILURE", message |-> "Bad credentials"]),
         BODY_REFUSED>>,
       <<BODY_NULL, JSNull, "null">> >>

\* JSON.parse(text): the decoded value, or a SyntaxError
JSONparse(text) ==
    IF \E i \in DOMAIN JsonTable : JsonTable[i][1] = text
    THEN [ok |-> TRUE,
          val |-> JsonTable[CHOOSE i \in DOMAIN JsonTable :
                                JsonTable[i][1] = text][2]]
    ELSE [ok |-> FALSE, val |-> JSNull]

\* JSON.stringify(v) of a decoded value
JSONstringify(v) ==
    JsonTable[CHOOSE i \in DOMAIN JsonTable : JsonTable[i][2] = v][3]

-----------------------------------------------------------------------------
(* const BASE *)

BASE(c) == IF c = "HlaPrintCardView" THEN "https://hlaprint.com"
                                     ELSE "https://YOUR-HLAPRINT-DOMAIN"

Cards == {"HlaPrintCard", "HlaPrintCardView"}

HTTP_OK_FIRST == 200
HTTP_OK_LAST == 299

\* res.ok
ResOk(res) == res.status >= HTTP_OK_FIRST /\ res.status <= HTTP_OK_LAST

NoToast == [type |-> "none", msg |-> ""]
ErrorToast(m) == [type |-> "error", msg |-> m]
SuccessToast(m) == [type |-> "success", msg |-> m]

\* what an awaited call can produce: a value, or a thrown error
Returned(v) == [threw |-> FALSE, out |-> v, message |-> "", toast |-> NoToast]
Thrown(m, t) == [threw |-> TRUE, out |-> JSNull, message |-> m, toast |-> t]

\* hsFetch of HlaPrintCardView with JSON.parse outside its try block: a body
\* that does not decode raises the SyntaxError
hsFetchView_ThrowOnDecode(url, res) ==
    LET text == res.text
        xErr == IF res.header.present /\ Truthy(res.header.value)
                THEN res.header.value ELSE ""
        detail == "URL: " \o url \o "\n"
                  \o "Status: " \o ToString(res.status) \o "\n"
                  \o "Proxy-Error: " \o xErr \o "\n"
                  \o "Body: "
                  \o Slice(IF Truthy(text) THEN text ELSE "<empty>", EXCERPT)
        parsed == JSONparse(text)
    IN  IF ~ResOk(res) THEN Thrown(detail, ErrorToast(detail))
        ELSE IF parsed.ok THEN Returned(parsed.val)
        ELSE Thrown("Unexpected token in JSON", NoToast)

\* hsFetch of HlaPrintCardView, once hubspot.fetch has answered with res:
\* on a non-2xx answer it sets the toast to the detail and throws it
hsFetchView(url, res) ==
    LET text == res.text
        xErr == IF res.header.present /\ Truthy(res.header.value)
                THEN res.header.value ELSE ""
        detail == "URL: " \o url \o "\n"
                  \o "Status: " \o ToString(res.status) \o "\n"
                  \o "Proxy-Error: " \o xErr \o "\n"
                  \o "Body: "
                  \o Slice(IF Truthy(text) THEN text ELSE "<empty>", EXCERPT)
        parsed == JSONparse(text)
    IN  IF ~ResOk(res) THEN Thrown(detail, ErrorToast(detail))
        ELSE IF parsed.ok THEN Returned(parsed.val)
        ELSE Returned(JSStr(text))

\* hsFetch of HlaPrintCard, once hubspot.fetch has answered with res
hsFetchCard(url, res) ==
    LET text == res.text
        parsed == JSONparse(text)
        json == IF parsed.ok THEN parsed.val ELSE JSStr(text)
    IN  IF ~ResOk(res)
        THEN Thrown(IF json.t = "str"
                    THEN ToString(res.status) \o " " \o json.s
                    ELSE IF HasTruthy(json, "message") THEN json.f.message
                    ELSE JSONstringify(json),
                    NoToast)
        ELSE Returned(json)

\* hsFetch(path, init) from the answer of hubspot.fetch on: an exception of
\* hubspot.fetch or of res.text() passes through hsFetch unchanged
hsFetch(c, path, res) ==
    IF res.threw THEN Thrown(res.message, NoToast)
    ELSE IF c = "HlaPrintCardView" THEN hsFetchView(BASE(c) \o path, res)
    ELSE hsFetchCard(BASE(c) \o path, res)

-----------------------------------------------------------------------------
(* validateBeforeSend and the request sendPrint builds *)

\* the null of `string | null`
Null == "<null>"

DEVICE_NAME_MAX == 23
COPIES_MIN == 1
COPIES_MAX == 100

ERR_LOGIN == "Please login first."
ERR_DEVICE_REQUIRED == "Device name is required."
ERR_DEVICE_LENGTH == "Device name must be <= 23 characters."
ERR_FILE_REQUIRED == "File URL is required."
ERR_RANGE_BOTH == "If using page range, set both start and end."
ERR_RANGE_START == "Page start must be an integer >= 1."
ERR_RANGE_END == "Page end must be an integer >= 1."
ERR_RANGE_ORDER == "Page end must be >= page start."
ERR_COPIES == "Copies must be between 1 and 100."

\* rangeStart.trim().length > 0
HasRange(r) == Len(Trim(r)) > 0

\* validateBeforeSend with `e <= s` for `e < s` in the order rule
validateBeforeSend_StrictOrder(tok, dev, url, rs, re, cp) ==
    LET hasStart == HasRange(rs)
        hasEnd == HasRange(re)
        s == ToNumber(rs)
        e == ToNumber(re)
    IN  IF ~Truthy(tok) THEN ERR_LOGIN
        ELSE IF ~Truthy(dev) THEN ERR_DEVICE_REQUIRED
        ELSE IF Len(dev) > DEVICE_NAME_MAX THEN ERR_DEVICE_LENGTH
        ELSE IF ~Truthy(url) THEN ERR_FILE_REQUIRED
        ELSE IF hasStart # hasEnd THEN ERR_RANGE_BOTH
        ELSE IF hasStart /\ hasEnd /\ (~IsInteger(s) \/ Lt(s, Num(1)))
             THEN ERR_RANGE_START
        ELSE IF hasStart /\ hasEnd /\ (~IsInteger(e) \/ Lt(e, Num(1)))
             THEN ERR_RANGE_END
        ELSE IF hasStart /\ hasEnd /\ ~Gt(e, s) THEN ERR_RANGE_ORDER
        ELSE IF Lt(cp, Num(COPIES_MIN)) \/ Gt(cp, Num(COPIES_MAX))
             THEN ERR_COPIES
        ELSE Null

\* validateBeforeSend with `length >= 23` for `length > 23`
validateBeforeSend_OffByOne(tok, dev, url, rs, re, cp) ==
    LET hasStart == HasRange(rs)
        hasEnd == HasRange(re)
        s == ToNumber(rs)
        e == ToNumber(re)
    IN  IF ~Truthy(tok) THEN ERR_LOGIN
        ELSE IF ~Truthy(dev) THEN ERR_DEVICE_REQUIRED
        ELSE IF Len(dev) >= DEVICE_NAME_MAX THEN ERR_DEVICE_LENGTH
        ELSE IF ~Truthy(url) THEN ERR_FILE_REQUIRED
        ELSE IF hasStart # hasEnd THEN ERR_RANGE_BOTH
        ELSE IF hasStart /\ hasEnd /\ (~IsInteger(s) \/ Lt(s, Num(1)))
             THEN ERR_RANGE_START
        ELSE IF hasStart /\ hasEnd /\ (~IsInteger(e) \/ Lt(e, Num(1)))
             THEN ERR_RANGE_END
        ELSE IF hasStart /\ hasEnd /\ Lt(e, s) THEN ERR_RANGE_ORDER
        ELSE IF Lt(cp, Num(COPIES_MIN)) \/ Gt(cp, Num(COPIES_MAX))
             THEN ERR_COPIES
        ELSE Null

\* validateBeforeSend with `copies <= 1 || copies >= 100` for the copies rule
validateBeforeSend_CopiesExclusive(tok, dev, url, rs, re, cp) ==
    LET hasStart == HasRange(rs)
        hasEnd == HasRange(re)
        s == ToNumber(rs)
        e == ToNumber(re)
    IN  IF ~Truthy(tok) THEN ERR_LOGIN
        ELSE IF ~Truthy(dev) THEN ERR_DEVICE_REQUIRED
        ELSE IF Len(dev) > DEVICE_NAME_MAX THEN ERR_DEVICE_LENGTH
        ELSE IF ~Truthy(url) THEN ERR_FILE_REQUIRED
        ELSE IF hasStart # hasEnd THEN ERR_RANGE_BOTH
        ELSE IF hasStart /\ hasEnd /\ (~IsInteger(s) \/ Lt(s, Num(1)))
             THEN ERR_RANGE_START
        ELSE IF hasStart /\ hasEnd /\ (~IsInteger(e) \/ Lt(e, Num(1)))
             THEN ERR_RANGE_END
        ELSE IF hasStart /\ hasEnd /\ Lt(e, s) THEN ERR_RANGE_ORDER
        ELSE IF ~Gt(cp, Num(COPIES_MIN)) \/ ~Lt(cp, Num(COPIES_MAX))
             THEN ERR_COPIES
        ELSE Null

\* validateBeforeSend with the copies rule moved before the range rules
validateBeforeSend_CopiesFirst(tok, dev, url, rs, re, cp) ==
    LET hasStart == HasRange(rs)
        hasEnd == HasRange(re)
        s == ToNumber(rs)
        e == ToNumber(re)
    IN  IF ~Truthy(tok) THEN ERR_LOGIN
        ELSE IF ~Truthy(dev) THEN ERR_DEVICE_REQUIRED
        ELSE IF Len(dev) > DEVICE_NAME_MAX THEN ERR_DEVICE_LENGTH
        ELSE IF ~Truthy(url) THEN ERR_FILE_REQUIRED
        ELSE IF Lt(cp, Num(COPIES_MIN)) \/ Gt(cp, Num(COPIES_MAX))
             THEN ERR_COPIES
        ELSE IF hasStart # hasEnd THEN ERR_RANGE_BOTH
        ELSE IF hasStart /\ hasEnd /\ (~IsInteger(s) \/ Lt(s, Num(1)))
             THEN ERR_RANGE_START
        ELSE IF hasStart /\ hasEnd /\ (~IsInteger(e) \/ Lt(e, Num(1)))
             THEN ERR_RANGE_END
        ELSE IF hasStart /\ hasEnd /\ Lt(e, s) THEN ERR_RANGE_ORDER
        ELSE Null

validateBeforeSend(tok, dev, url, rs, re, cp) ==
    LET hasStart == HasRange(rs)
        hasEnd == HasRange(re)
        s == ToNumber(rs)
        e == ToNumber(re)
    IN  IF ~Truthy(tok) THEN ERR_LOGIN
        ELSE IF ~Truthy(dev) THEN ERR_DEVICE_REQUIRED
        ELSE IF Len(dev) > DEVICE_NAME_MAX THEN ERR_DEVICE_LENGTH
        ELSE IF ~Truthy(url) THEN ERR_FILE_REQUIRED
        ELSE IF hasStart # hasEnd THEN ERR_RANGE_BOTH
        ELSE IF hasStart /\ hasEnd /\ (~IsInteger(s) \/ Lt(s, Num(1)))
             THEN ERR_RANGE_START
        ELSE IF hasStart /\ hasEnd /\ (~IsInteger(e) \/ Lt(e, Num(1)))
             THEN ERR_RANGE_END
        ELSE IF hasStart /\ hasEnd /\ Lt(e, s) THEN ERR_RANGE_ORDER
        ELSE IF Lt(cp, Num(COPIES_MIN)) \/ Gt(cp, Num(COPIES_MAX))
             THEN ERR_COPIES
        ELSE Null

\* if (rangeStart && rangeEnd)
IncludesRange(rs, re) == Truthy(rs) /\ Truthy(re)

\* the printFile object of sendPrint
printFile(url, col, dup, ps, cp, ori, rs, re) ==
    IF IncludesRange(rs, re)
    THEN [filename |-> url, color |-> col, double_sided |-> dup,
          page_size |-> ps, copies |-> cp, page_orientation |-> ori,
          pages_start |-> ToNumber(rs), page_end |-> ToNumber(re)]
    ELSE [filename |-> url, color |-> col, double_sided |-> dup,
          page_size |-> ps, copies |-> cp, page_orientation |-> ori]

\* the validation error of the draft on screen
DraftError ==
    validateBeforeSend(token, deviceName, fileUrl, rangeStart, rangeEnd,
                       copies)

\* the body of the createPrintjob request for the draft on screen
DraftBody ==
    [device_name |-> deviceName,
     print_files |-> <<printFile(fileUrl, color, duplex, pageSize, copies,
                                 orientation, rangeStart, rangeEnd)>>]

LOGIN_PATH == "/api/login"
PRINT_PATH == "/api/createPrintjob"
PING_PATH == "/robots.txt"

LoginRequest ==
    [kind |-> "login", url |-> BASE(card) \o LOGIN_PATH, method |-> "POST",
     authorization |-> "",
     body |-> [email |-> email, password |-> password]]

\* the createPrintjob request with the bare token as its Authorization
PrintRequest_NoBearer ==
    [kind |-> "print", url |-> BASE(card) \o PRINT_PATH, method |-> "POST",
     authorization |-> token,
     body |-> DraftBody]

PrintRequest ==
    [kind |-> "print", url |-> BASE(card) \o PRINT_PATH, method |-> "POST",
     authorization |-> "Bearer " \o token,
     body |-> DraftBody]

PingRequest ==
    [kind |-> "ping", url |-> BASE(card) \o PING_PATH, method |-> "GET",
     authorization |-> "", body |-> [none |-> TRUE]]

-----------------------------------------------------------------------------
(* What hubspot.fetch can answer *)

Header(v) == [present |-> TRUE, value |-> v]
NoHeader == [present |-> FALSE, value |-> ""]

\* an HTTP response
Answer(st, h, txt) ==
    [threw |-> FALSE, message |-> "", status |-> st, header |-> h,
     text |-> txt]
\* hubspot.fetch (or res.text()) throws an Error with this message
Failure(m) ==
    [threw |-> TRUE, message |-> m, status |-> 0, header |-> NoHeader,
     text |-> ""]

\* String(e) of an Error
ErrorString(m) == IF Truthy(m) THEN "Error: " \o m ELSE "Error"

\* the answers the server gives in the card flow
FlowAnswers ==
    {Answer(200, NoHeader, BODY_TOKEN1),
     Answer(200, NoHeader, BODY_NOTOKEN),
     Answer(500, Header("upstream timeout"), BODY_TEXT),
     Failure("Network error")}

\* the answers given to hsFetch as a function
AllAnswers ==
    {Answer(st, h, b) :
        st \in {200, 204, 401, 500},
        h \in {NoHeader, Header("upstream timeout")},
        b \in {BODY_TOKEN1, BODY_TOKEN2, BODY_NOTOKEN, BODY_EMPTYTOKEN,
               BODY_JOB, BODY_MESSAGE, BODY_FAILURE, BODY_NULL, BODY_TEXT,
               BODY_NONE, BODY_LONG}}
    \cup {Failure("Network error"), Failure("")}

-----------------------------------------------------------------------------
(* The handlers after their await.  Each gives the values of the state the *)
(* handler leaves behind, from the answer and the state it resumes in.     *)

\* doLogin without `if (!t) throw`: any 2xx answer logs in
doLogin_NoTokenCheck(c, res, tok, tst, stg) ==
    LET o == hsFetch(c, LOGIN_PATH, res)
        after == IF o.toast # NoToast THEN o.toast ELSE tst
    IN  IF ~o.threw
        THEN [token |-> GetOr(o.out, "token", ""),
              toast |-> SuccessToast("Logged in to HlaPrint."),
              stage |-> "ready"]
        ELSE IF c = "HlaPrintCardView"
        THEN [token |-> tok, toast |-> after, stage |-> stg]
        ELSE [token |-> tok,
              toast |-> ErrorToast(IF Truthy(o.message) THEN o.message
                                   ELSE "Login failed"),
              stage |-> stg]

\* doLogin without setStage("ready")
doLogin_NoStage(c, res, tok, tst, stg) ==
    LET o == hsFetch(c, LOGIN_PATH, res)
        after == IF o.toast # NoToast THEN o.toast ELSE tst
    IN  IF ~o.threw /\ HasTruthy(o.out, "token")
        THEN [token |-> o.out.f.token,
              toast |-> SuccessToast("Logged in to HlaPrint."),
              stage |-> stg]
        ELSE IF c = "HlaPrintCardView"
        THEN [token |-> tok, toast |-> after, stage |-> stg]
        ELSE [token |-> tok,
              toast |-> ErrorToast(
                  IF ~o.threw THEN "Token missing in response"
                  ELSE IF Truthy(o.message) THEN o.message
                  ELSE "Login failed"),
              stage |-> stg]

\* doLogin with setToken("") in its catch block: a failed login logs out
doLogin_LogoutOnFailure(c, res, tok, tst, stg) ==
    LET o == hsFetch(c, LOGIN_PATH, res)
        after == IF o.toast # NoToast THEN o.toast ELSE tst
    IN  IF ~o.threw /\ HasTruthy(o.out, "token")
        THEN [token |-> o.out.f.token,
              toast |-> SuccessToast("Logged in to HlaPrint."),
              stage |-> "ready"]
        ELSE IF c = "HlaPrintCardView"
        THEN [token |-> "", toast |-> after, stage |-> stg]
        ELSE [token |-> "",
              toast |-> ErrorToast(
                  IF ~o.threw THEN "Token missing in response"
                  ELSE IF Truthy(o.message) THEN o.message
                  ELSE "Login failed"),
              stage |-> stg]

\* doLogin from `await hsFetch("/api/login", ...)` on
doLogin(c, res, tok, tst, stg) ==
    LET o == hsFetch(c, LOGIN_PATH, res)
        after == IF o.toast # NoToast THEN o.toast ELSE tst
    IN  IF ~o.threw /\ HasTruthy(o.out, "token")
        THEN [token |-> o.out.f.token,
              toast |-> SuccessToast("Logged in to HlaPrint."),
              stage |-> "ready"]
        ELSE IF c = "HlaPrintCardView"
        THEN \* catch (e) { handled in hs fetch already }
             [token |-> tok, toast |-> after, stage |-> stg]
        ELSE \* catch (e) { setToast(e?.message || "Login failed") }
             [token |-> tok,
              toast |-> ErrorToast(
                  IF ~o.threw THEN "Token missing in response"
                  ELSE IF Truthy(o.message) THEN o.message
                  ELSE "Login failed"),
              stage |-> stg]

\* sendPrint with setStage("ready") at the end of the try block instead of
\* in finally: a thrown error leaves the stage as it is
sendPrintResume_NoFinally(c, res, tst, stg) ==
    LET o == hsFetch(c, PRINT_PATH, res)
        after == IF o.toast # NoToast THEN o.toast ELSE tst
    IN  IF ~o.threw
        THEN [toast |-> SuccessToast(
                  "Created. Txn " \o GetOr(o.out, "transaction_id", "-")
                  \o ", code " \o GetOr(o.out, "code", "-")),
              stage |-> "ready"]
        ELSE IF c = "HlaPrintCardView"
        THEN [toast |-> after, stage |-> stg]
        ELSE [toast |-> ErrorToast(IF Truthy(o.message) THEN o.message
                                   ELSE "Failed to create job"),
              stage |-> stg]

\* sendPrint from `await hsFetch("/api/createPrintjob", ...)` on; the finally
\* block sets the stage whatever stage stg the handler resumes in
sendPrintResume(c, res, tst, stg) ==
    LET o == hsFetch(c, PRINT_PATH, res)
        after == IF o.toast # NoToast THEN o.toast ELSE tst
    IN  IF ~o.threw
        THEN [toast |-> SuccessToast(
                  "Created. Txn " \o GetOr(o.out, "transaction_id", "-")
                  \o ", code " \o GetOr(o.out, "code", "-")),
              stage |-> "ready"]
        ELSE IF c = "HlaPrintCardView"
        THEN [toast |-> after, stage |-> "ready"]
        ELSE [toast |-> ErrorToast(IF Truthy(o.message) THEN o.message
                                   ELSE "Failed to create job"),
              stage |-> "ready"]

\* debugPing from `await hubspot.fetch(...)` on
debugPing(c, res) ==
    IF res.threw
    THEN ErrorToast("Ping failed: " \o ErrorString(res.message))
    ELSE [type |-> IF ResOk(res) THEN "success" ELSE "error",
          msg |-> "Ping " \o ToString(res.status) \o " "
                  \o BASE(c) \o PING_PATH]

\* the sequence s without its i-th element
Without(s, i) == SubSeq(s, 1, i - 1) \o SubSeq(s, i + 1, Len(s))

-----------------------------------------------------------------------------
(* What the user types and selects in the card flow *)

EmailTyped == {"a@b.com"}
PasswordTyped == {"x"}
DeviceTyped == {"Desk1", Repeat("d", DEVICE_NAME_MAX + 1)}
FileTyped == {"https://x/y.pdf"}
CopiesTyped == {"0", "a", "", "-5", "2", "101"}
RangeTyped == {"", " ", "1"}
PageSizes == {"A4", "A3", "Letter"}
Orientations == {"auto", "portrait", "landscape"}

\* Math.max(a, b) and Math.min(a, b): NaN if either is NaN
MathMax(a, b) == IF a.nan \/ b.nan THEN NaN ELSE Num(Max(a.val, b.val))
MathMin(a, b) == IF a.nan \/ b.nan THEN NaN ELSE Num(Min(a.val, b.val))

\* the Copies handler without Math.max: Math.min(100, Number(v) || 1)
copiesOnChange_NoFloor(v) ==
    LET n == ToNumber(v)
    IN  MathMin(Num(COPIES_MAX), IF TruthyNum(n) THEN n ELSE Num(1))

\* the Copies handler: Math.min(100, Math.max(1, Number(v) || 1))
copiesOnChange(v) ==
    LET n == ToNumber(v)
    IN  MathMin(Num(COPIES_MAX),
                MathMax(Num(COPIES_MIN), IF TruthyNum(n) THEN n ELSE Num(1)))

\* the Device Name handler: v.length <= 23 && setDeviceName(v)
deviceOnChange(v, dev) == IF Len(v) <= DEVICE_NAME_MAX THEN v ELSE dev

-----------------------------------------------------------------------------
(* The settings page: connect after its await *)

SETTINGS_BASE == "https://879a9ec3af06.ngrok-free.app"
CONNECT_PATH == "/api/hubspot/settings/hlaprint/connect"

NoStatus == [type |-> "none", msg |-> ""]
ErrorStatus(m) == [type |-> "error", msg |-> m]
SuccessStatus(m) == [type |-> "success", msg |-> m]

ConnectRequest ==
    [kind |-> "connect", url |-> SETTINGS_BASE \o CONNECT_PATH,
     method |-> "POST", authorization |-> "",
     body |-> [email |-> settingsEmail, password |-> settingsPassword]]

\* the message of the TypeError that `json.status` raises on null
NULL_STATUS_ERROR == "Cannot read properties of null (reading 'status')"

\* connect from `await hubspot.fetch(...)` on: the status it sets.  It reads
\* the body whatever res.ok is; a body that does not decode stands for
\* {status: "FAILURE", message: txt}; an exception ends in the catch block
connect(res) ==
    LET txt == res.text
        parsed == JSONparse(txt)
        json == IF parsed.ok THEN parsed.val
                ELSE JSObj([status |-> "FAILURE", message |-> txt])
    IN  IF res.threw
        THEN ErrorStatus(IF Truthy(res.message) THEN res.message
                         ELSE "Unexpected error.")
        ELSE IF json = JSNull THEN ErrorStatus(NULL_STATUS_ERROR)
        ELSE IF Has(json, "status") /\ json.f.status = "SUCCESS"
        THEN SuccessStatus("Connected to HlaPrint.")
        ELSE ErrorStatus(IF HasTruthy(json, "message") THEN json.f.message
                         ELSE "Failed to connect. Check credentials.")

SettingsMounted ==
    /\ settingsEmail = ""
    /\ settingsPassword = ""
    /\ busy = FALSE
    /\ status = NoStatus
    /\ connecting = <<>>

-----------------------------------------------------------------------------
(* The card *)

Mounted(c) ==
    /\ card = c
    /\ stage = "login"
    /\ toast = NoToast
    /\ email = ""
    /\ password = ""
    /\ token = ""
    /\ deviceName = ""
    /\ fileUrl = ""
    /\ copies = Num(1)
    /\ color = FALSE
    /\ duplex = TRUE
    /\ pageSize = "A4"
    /\ orientation = "auto"
    /\ rangeStart = ""
    /\ rangeEnd = ""
    /\ inflight = <<>>
    /\ SettingsMounted

Init == \E c \in Cards : Mounted(c)

session == <<stage, toast, token, inflight>>
credentials == <<email, password>>

\* the login form is on screen
LoginShown == stage = "login"
\* the job form is on screen
FormShown == stage # "login"

SetEmail ==
    /\ LoginShown
    /\ \E v \in EmailTyped : email' = v
    /\ UNCHANGED <<settings, card, password, session, form>>

SetPassword ==
    /\ LoginShown
    /\ \E v \in PasswordTyped : password' = v
    /\ UNCHANGED <<settings, card, email, session, form>>

\* the Login button: doLogin up to its await
ClickLogin ==
    /\ LoginShown
    /\ Len(inflight) < MaxInFlight
    /\ inflight' = Append(inflight, LoginRequest)
    /\ UNCHANGED <<settings, card, credentials, stage, toast, token, form>>

\* doLogin of the i-th handler in flight resumes with the answer res
LoginResumes(i, res) ==
    /\ inflight[i].kind = "login"
    /\ LET after == doLogin(card, res, token, toast, stage)
       IN  /\ token' = after.token
           /\ toast' = after.toast
           /\ stage' = after.stage
    /\ inflight' = Without(inflight, i)
    /\ UNCHANGED <<settings, card, credentials, form>>

\* doLogin resumes with the answer to its request
LoginAnswered(answers) ==
    \E i \in DOMAIN inflight, res \in answers : LoginResumes(i, res)

SetDeviceName ==
    /\ FormShown
    /\ \E v \in DeviceTyped : deviceName' = deviceOnChange(v, deviceName)
    /\ UNCHANGED <<settings, card, credentials, session,
                   fileUrl, copies, color, duplex,
                   pageSize, orientation, rangeStart, rangeEnd>>

SetFileUrl ==
    /\ FormShown
    /\ \E v \in FileTyped : fileUrl' = v
    /\ UNCHANGED <<settings, card, credentials, session,
                   deviceName, copies, color,
                   duplex, pageSize, orientation, rangeStart, rangeEnd>>

SetCopies ==
    /\ FormShown
    /\ \E v \in CopiesTyped : copies' = copiesOnChange(v)
    /\ UNCHANGED <<settings, card, credentials, session,
                   deviceName, fileUrl, color,
                   duplex, pageSize, orientation, rangeStart, rangeEnd>>

SetRangeStart ==
    /\ FormShown
    /\ \E v \in RangeTyped : rangeStart' = v
    /\ UNCHANGED <<settings, card, credentials, session,
                   deviceName, fileUrl, copies,
                   color, duplex, pageSize, orientation, rangeEnd>>

SetRangeEnd ==
    /\ FormShown
    /\ \E v \in RangeTyped : rangeEnd' = v
    /\ UNCHANGED <<settings, card, credentials, session,
                   deviceName, fileUrl, copies,
                   color, duplex, pageSize, orientation, rangeStart>>

\* sendPrint without the `return` after the validation error
sendPrint_NoReturn ==
    /\ Len(inflight) < MaxInFlight
    /\ toast' = IF DraftError # Null THEN ErrorToast(DraftError) ELSE toast
    /\ stage' = "sending"
    /\ inflight' = Append(inflight, PrintRequest)
    /\ UNCHANGED <<settings, card, credentials, token, form>>

\* sendPrint up to its await: validate, then build and send the request
sendPrint ==
    /\ DraftError = Null => Len(inflight) < MaxInFlight
    /\ IF DraftError # Null
       THEN /\ toast' = ErrorToast(DraftError)
            /\ UNCHANGED <<stage, inflight>>
       ELSE /\ stage' = "sending"
            /\ inflight' = Append(inflight, PrintRequest)
            /\ UNCHANGED toast
    /\ UNCHANGED <<settings, card, credentials, token, form>>

\* the Send button, disabled={!deviceName || !fileUrl}
ClickSend ==
    /\ FormShown
    /\ Truthy(deviceName) /\ Truthy(fileUrl)
    /\ sendPrint

\* sendPrint resumes with the answer to its request
PrintAnswered(answers) ==
    \E i \in DOMAIN inflight, res \in answers :
        /\ inflight[i].kind = "print"
        /\ LET after == sendPrintResume(card, res, toast, stage)
           IN  /\ toast' = after.toast
               /\ stage' = after.stage
        /\ inflight' = Without(inflight, i)
        /\ UNCHANGED <<settings, card, credentials, token, form>>

\* the Debug Ping button of HlaPrintCardView: debugPing up to its await
ClickPing ==
    /\ card = "HlaPrintCardView"
    /\ Len(inflight) < MaxInFlight
    /\ inflight' = Append(inflight, PingRequest)
    /\ UNCHANGED <<settings, card, credentials, stage, toast, token, form>>

\* debugPing resumes with the answer to its request
PingAnswered(answers) ==
    \E i \in DOMAIN inflight, res \in answers :
        /\ inflight[i].kind = "ping"
        /\ toast' = debugPing(card, res)
        /\ inflight' = Without(inflight, i)
        /\ UNCHANGED <<settings, card, credentials, stage, token, form>>

\* the Alert's onClose
CloseToast ==
    /\ toast # NoToast
    /\ toast' = NoToast
    /\ UNCHANGED <<settings, card, credentials, stage, token, inflight, form>>

Next ==
    \/ SetEmail
    \/ SetPassword
    \/ ClickLogin
    \/ LoginAnswered(FlowAnswers)
    \/ SetDeviceName
    \/ SetFileUrl
    \/ SetRangeStart
    \/ SetRangeEnd
    \/ ClickSend
    \/ PrintAnswered(FlowAnswers)
    \/ ClickPing
    \/ PingAnswered(FlowAnswers)
    \/ CloseToast

Spec == Init /\ [][Next]_vars

-----------------------------------------------------------------------------
(* sendPrint as a function of the draft: the card holds any draft at all,  *)
(* also one the field handlers cannot produce, and sendPrint is called.    *)

RangeInputs == StringsUpTo({" ", "1", "a"}, MaxRangeLen) \cup {"0", "-1"}
DeviceInputs ==
    {"", Repeat("d", DEVICE_NAME_MAX), Repeat("d", DEVICE_NAME_MAX + 1)}
CopiesInputs ==
    {Num(COPIES_MIN - 1), Num(COPIES_MIN), Num(COPIES_MAX),
     Num(COPIES_MAX + 1)}

InitDraft ==
    /\ card \in Cards
    /\ stage = "ready"
    /\ toast = NoToast
    /\ email = ""
    /\ password = ""
    /\ token \in {"", "T1"}
    /\ deviceName \in DeviceInputs
    /\ fileUrl \in {"", "https://x/y.pdf"}
    /\ copies \in CopiesInputs
    /\ color = TRUE
    /\ duplex = FALSE
    /\ pageSize = "A3"
    /\ orientation = "portrait"
    /\ rangeStart \in RangeInputs
    /\ rangeEnd \in RangeInputs
    /\ inflight = <<>>
    /\ SettingsMounted

NextDraft == sendPrint

SpecValidate == InitDraft /\ [][NextDraft]_vars

-----------------------------------------------------------------------------
(* hsFetch as a function of the answer: the card has one request in flight *)
(* and hubspot.fetch answers it in any way.                                *)

InitFetch ==
    /\ card \in Cards
    /\ toast \in {NoToast, SuccessToast("Logged in to HlaPrint.")}
    /\ email = "a@b.com"
    /\ password = "x"
    /\ deviceName = "Desk1"
    /\ fileUrl = "https://x/y.pdf"
    /\ copies = Num(2)
    /\ color = TRUE
    /\ duplex = FALSE
    /\ pageSize = "A3"
    /\ orientation = "portrait"
    /\ rangeStart = "1"
    /\ rangeEnd = "3"
    /\ \/ /\ stage = "login"
          /\ token = ""
          /\ inflight = <<LoginRequest>>
       \/ /\ stage = "ready"
          /\ token = "T2"
          /\ inflight = <<LoginRequest>>
       \/ /\ stage = "sending"
          /\ token = "T2"
          /\ inflight \in {<<PrintRequest>>, <<LoginRequest, PrintRequest>>}
    /\ SettingsMounted

NextFetch ==
    \/ LoginAnswered(AllAnswers)
    \/ PrintAnswered(AllAnswers)

SpecFetch == InitFetch /\ [][NextFetch]_vars

-----------------------------------------------------------------------------
(* The job form: the card right after a successful login, with the Device  *)
(* Name, File URL, Copies and Page Start handlers and the Send button.     *)

InitForm ==
    /\ card \in Cards
    /\ stage = "ready"
    /\ toast = SuccessToast("Logged in to HlaPrint.")
    /\ email = "a@b.com"
    /\ password = "x"
    /\ token = "T1"
    /\ deviceName = ""
    /\ fileUrl = ""
    /\ copies = Num(1)
    /\ color = FALSE
    /\ duplex = TRUE
    /\ pageSize = "A4"
    /\ orientation = "auto"
    /\ rangeStart = ""
    /\ rangeEnd = ""
    /\ inflight = <<>>
    /\ SettingsMounted

NextForm ==
    \/ SetDeviceName
    \/ SetFileUrl
    \/ SetCopies
    \/ SetRangeStart
    \/ ClickSend
    \/ PrintAnswered(FlowAnswers)
    \/ CloseToast

SpecForm == InitForm /\ [][NextForm]_vars

-----------------------------------------------------------------------------
(* The login form with a server that hands out one token per account: the  *)
(* token of a login depends on the e-mail address the request carries.     *)

\* what /api/login answers to the request r
AccountAnswers(r) ==
    {Answer(200, NoHeader,
            IF r.body.email = "" THEN BODY_TOKEN2 ELSE BODY_TOKEN1),
     Answer(401, NoHeader, BODY_MESSAGE)}

\* the server answers one of the logins in flight
LoginServed ==
    \E i \in DOMAIN inflight :
        /\ inflight[i].kind = "login"
        /\ \E res \in AccountAnswers(inflight[i]) : LoginResumes(i, res)

NextLogin ==
    \/ SetEmail
    \/ SetPassword
    \/ ClickLogin
    \/ LoginServed
    \/ CloseToast

SpecLogin == Init /\ [][NextLogin]_vars

-----------------------------------------------------------------------------
(* The settings page *)

SettingsEmailTyped == {"", "a@b.com", "c@d.com"}
SettingsPasswordTyped == {"", "x", "y"}

\* what the connect endpoint, the proxy or the transport can answer
SettingsAnswers ==
    {Answer(st, NoHeader, b) :
        st \in {200, 401, 500},
        b \in {BODY_SUCCESS, BODY_REFUSED, BODY_FAILURE, BODY_MESSAGE,
               BODY_NULL, BODY_TEXT, BODY_NONE}}
    \cup {Failure("Network error"), Failure("")}

cardState == <<card, stage, toast, email, password, token, form, inflight>>

SetSettingsEmail ==
    /\ \E v \in SettingsEmailTyped : settingsEmail' = v
    /\ UNCHANGED <<cardState, settingsPassword, busy, status, connecting>>

SetSettingsPassword ==
    /\ \E v \in SettingsPasswordTyped : settingsPassword' = v
    /\ UNCHANGED <<cardState, settingsEmail, busy, status, connecting>>

\* the Connect button without `|| busy` in its disabled attribute
ClickConnect_IgnoresBusy ==
    /\ Truthy(settingsEmail) /\ Truthy(settingsPassword)
    /\ Len(connecting) < MaxInFlight
    /\ status' = NoStatus
    /\ busy' = TRUE
    /\ connecting' = Append(connecting, ConnectRequest)
    /\ UNCHANGED <<cardState, settingsEmail, settingsPassword>>

\* the Connect button, disabled={!email || !password || busy}: connect up to
\* its await
ClickConnect ==
    /\ Truthy(settingsEmail) /\ Truthy(settingsPassword) /\ ~busy
    /\ Len(connecting) < MaxInFlight
    /\ status' = NoStatus
    /\ busy' = TRUE
    /\ connecting' = Append(connecting, ConnectRequest)
    /\ UNCHANGED <<cardState, settingsEmail, settingsPassword>>

\* connect resumes with the answer to its request; finally { setBusy(false) }
ConnectAnswered(answers) ==
    \E i \in DOMAIN connecting, res \in answers :
        /\ status' = connect(res)
        /\ busy' = FALSE
        /\ connecting' = Without(connecting, i)
        /\ UNCHANGED <<cardState, settingsEmail, settingsPassword>>

\* the Alert's onClose of the settings page
CloseStatus ==
    /\ status # NoStatus
    /\ status' = NoStatus
    /\ UNCHANGED <<cardState, settingsEmail, settingsPassword, busy,
                   connecting>>

InitSettings == Mounted("HlaPrintCardView")

NextSettings ==
    \/ SetSettingsEmail
    \/ SetSettingsPassword
    \/ ClickConnect
    \/ ConnectAnswered(SettingsAnswers)
    \/ CloseStatus

SpecSettings == InitSettings /\ [][NextSettings]_vars

-----------------------------------------------------------------------------
(* Vocabulary of the properties *)

\* the print file of a createPrintjob request
FileOf(r) == r.body.print_files[1]

\* this step started a createPrintjob request
PrintSent ==
    /\ Len(inflight') = Len(inflight) + 1
    /\ inflight'[Len(inflight')].kind = "print"
    /\ SubSeq(inflight', 1, Len(inflight)) = inflight

\* this step is the end of an outstanding createPrintjob call
PrintCompleted ==
    \E i \in DOMAIN inflight :
        inflight[i].kind = "print" /\ inflight' = Without(inflight, i)

\* the answer is an HTTP response with a status outside 200..299
Non2xx(res) == ~res.threw /\ (res.status < 200 \/ res.status > 299)
Is2xx(res) == ~res.threw /\ res.status >= 200 /\ res.status <= 299

\* the 2xx answer has a body that decodes to an object with a token field
HasTokenField(res) ==
    Is2xx(res) /\ JSONparse(res.text).ok
    /\ Has(JSONparse(res.text).val, "token")
\* ... and the token is not the empty string
HasToken(res) == HasTokenField(res) /\ JSONparse(res.text).val.f.token # ""
TokenOf(res) == JSONparse(res.text).val.f.token

Interactive == stage \in {"login", "ready"}

-----------------------------------------------------------------------------
(* C1 *)

\* C1: validation gate.  When validateBeforeSend returns an error, sendPrint
\* sends no createPrintjob request, leaves stage as it is and sets the toast
\* to exactly that error; and a createPrintjob request is only ever sent in a
\* step whose draft validateBeforeSend accepts, carrying that draft.
C1_ValidationGate ==
    [][ /\ (ClickSend /\ DraftError # Null) =>
              /\ inflight' = inflight
              /\ stage' = stage
              /\ toast' = ErrorToast(DraftError)
        /\ PrintSent =>
              /\ DraftError = Null
              /\ inflight'[Len(inflight')].body = DraftBody ]_vars

\* a submission was rejected while an earlier one was in flight
C1_Witness ==
    /\ toast = ErrorToast(ERR_RANGE_BOTH)
    /\ stage = "sending"
    /\ Len(inflight) = 1

-----------------------------------------------------------------------------
(* C2 *)

\* C2: the flow is never left in "sending".  Whenever an outstanding
\* createPrintjob call completes (2xx, non-2xx or an exception of the
\* transport), the handler leaves stage = "ready".
C2_NeverStuckSending == [][PrintCompleted => stage' = "ready"]_vars

\* a submission failed on the transport and the card is ready again
C2_Witness ==
    /\ stage = "ready"
    /\ token # ""
    /\ inflight = <<>>
    /\ toast = ErrorToast("Network error")

-----------------------------------------------------------------------------
(* C3 *)

\* C3: every failure resolves to a displayable message.  After a failed
\* login (non-2xx, an exception of hubspot.fetch, or a 2xx body without a
\* token) and after a failed submission (non-2xx or an exception) the toast
\* holds an error message and the stage is "login" or "ready".
C3_FailureShowsError ==
    [][ \A res \in AllAnswers :
          /\ (LoginAnswered({res}) /\ ~HasToken(res)) =>
                 toast'.type = "error" /\ toast'.msg # "" /\ Interactive'
          /\ (PrintAnswered({res}) /\ ~Is2xx(res)) =>
                 toast'.type = "error" /\ toast'.msg # "" /\ Interactive'
      ]_vars

-----------------------------------------------------------------------------
(* C4 *)

\* C4: a login whose answer is non-2xx, or 2xx with a body that has no token
\* field (a body that is not JSON included), fails: the handler ends, and the
\* token and the stage are what they were (a logged-out session stays logged
\* out at stage "login").
C4_FailedLoginKeepsSession ==
    [][ \A res \in AllAnswers :
          (LoginAnswered({res}) /\ (Non2xx(res) \/ (Is2xx(res) /\ ~HasTokenField(res))))
          => /\ token' = token
             /\ stage' = stage
             /\ Len(inflight') = Len(inflight) - 1 ]_vars

\* a login has failed and the session is still logged out at the login form
C4_Witness ==
    /\ card = "HlaPrintCard"
    /\ toast = ErrorToast("Token missing in response")
    /\ token = ""
    /\ stage = "login"
    /\ inflight = <<>>

-----------------------------------------------------------------------------
(* C5 *)

\* C5: a successful login logs the session in.  When /api/login answers 2xx
\* with a body holding a non-empty token T, the handler leaves token = T and
\* stage = "ready".
C5_LoginSetsToken ==
    [][ \A res \in AllAnswers :
          (LoginAnswered({res}) /\ HasToken(res))
          => token' = TokenOf(res) /\ stage' = "ready" ]_vars

\* the login of the end-to-end scenario has succeeded
C5_Witness ==
    /\ token = "T1"
    /\ stage = "ready"
    /\ toast = SuccessToast("Logged in to HlaPrint.")
    /\ inflight = <<>>

-----------------------------------------------------------------------------
(* C6 *)

\* the message of the error that surfaced in the toast carries the status,
\* the proxy diagnostic header when there is one, and the first 400
\* characters of the body
Carries(msg, res) ==
    /\ Includes(msg, ToString(res.status))
    /\ res.header.present => Includes(msg, res.header.value)
    /\ Includes(msg, Slice(res.text, EXCERPT))

\* C6: for every non-2xx response hsFetch returns no payload: it raises an
\* error that carries the HTTP status, the value of x-hubspot-external-error
\* when present and the first 400 characters of the body.  The error is seen
\* where the callers of hsFetch show it: no success is reported and the toast
\* holds the error's message.
C6_HttpErrorDetail ==
    [][ \A res \in AllAnswers :
          ((LoginAnswered({res}) \/ PrintAnswered({res})) /\ Non2xx(res))
          => /\ toast'.type = "error"
             /\ token' = token
             /\ Carries(toast'.msg, res) ]_vars

-----------------------------------------------------------------------------
(* C7 *)

HasStart(f) == "pages_start" \in DOMAIN f
HasEnd(f) == "page_end" \in DOMAIN f

\* the PrintFile invariant: no page range, or a whole one with
\* 1 <= pages_start <= page_end
RangeWellFormed(f) ==
    \/ ~HasStart(f) /\ ~HasEnd(f)
    \/ /\ HasStart(f) /\ HasEnd(f)
       /\ ~f.pages_start.nan /\ ~f.page_end.nan
       /\ f.pages_start.val >= 1
       /\ f.page_end.val >= f.pages_start.val

\* C7: in every createPrintjob request sent, whatever the user typed into the
\* range fields, the page range of the print file is absent as a whole or
\* present as a whole with pages_start >= 1 and page_end >= pages_start.
C7_RangeOnWire ==
    \A i \in DOMAIN inflight :
        inflight[i].kind = "print" => RangeWellFormed(FileOf(inflight[i]))

-----------------------------------------------------------------------------
(* C8 *)

\* the field holds a character that is not white space
IsSet(r) == \E i \in 1..Len(r) : ~IsSpace(SubSeq(r, i, i))

\* C8: the payload sendPrint builds has pages_start and page_end if and only
\* if rangeStart and rangeEnd are both set in the validator's sense (not
\* empty after trimming), and then they hold the numbers of the two fields.
C8_RangeIffBothSet ==
    [][ PrintSent =>
          LET f == FileOf(inflight'[Len(inflight')])
          IN  /\ HasStart(f) <=> (IsSet(rangeStart) /\ IsSet(rangeEnd))
              /\ HasEnd(f) <=> (IsSet(rangeStart) /\ IsSet(rangeEnd))
              /\ HasStart(f) => f.pages_start = ToNumber(rangeStart)
              /\ HasEnd(f) => f.page_end = ToNumber(rangeEnd) ]_vars

-----------------------------------------------------------------------------
(* C9 *)

\* sendPrint has run on the draft: it rejected it or it sent it
Rejected == toast.type = "error"
Sent == stage = "sending" /\ Len(inflight) > 0
Validated == Rejected \/ Sent

RangeErrors ==
    {ERR_RANGE_BOTH, ERR_RANGE_START, ERR_RANGE_END, ERR_RANGE_ORDER}
RejectedOnRange == Rejected /\ toast.msg \in RangeErrors

\* the draft passes the token, device-name and file-URL rules
PassesEarlierRules ==
    /\ token # ""
    /\ deviceName # "" /\ Len(deviceName) <= DEVICE_NAME_MAX
    /\ fileUrl # ""

\* the field reads as an integer >= 1
PositiveInteger(r) == ~ToNumber(r).nan /\ ToNumber(r).val >= 1

\* C9: page-range validation.  For a draft that passes the token, device-name
\* and file-URL rules: it is rejected when exactly one of rangeStart and
\* rangeEnd is set; the range rules do not reject it when neither is set; and
\* when both are set it is rejected on the range rules exactly when one of
\* them is not an integer >= 1 or end < start.
C9_RangeValidation ==
    (Validated /\ PassesEarlierRules) =>
        /\ (IsSet(rangeStart) # IsSet(rangeEnd)) =>
               toast = ErrorToast(ERR_RANGE_BOTH)
        /\ (~IsSet(rangeStart) /\ ~IsSet(rangeEnd)) => ~RejectedOnRange
        /\ (IsSet(rangeStart) /\ IsSet(rangeEnd)) =>
               (RejectedOnRange <=>
                    \/ ~PositiveInteger(rangeStart)
                    \/ ~PositiveInteger(rangeEnd)
                    \/ ToNumber(rangeEnd).val < ToNumber(rangeStart).val)

\* a range with its end before its start was rejected
C9_Witness ==
    /\ PassesEarlierRules
    /\ rangeStart = "11" /\ rangeEnd = " 1"
    /\ toast = ErrorToast(ERR_RANGE_ORDER)

-----------------------------------------------------------------------------
(* C10 *)

\* C10 as stated: every draft with a device name longer than 23 characters
\* is rejected with the length error, whatever the other values are.
C10_LengthErrorAlways ==
    (Validated /\ Len(deviceName) > DEVICE_NAME_MAX) =>
        toast = ErrorToast(ERR_DEVICE_LENGTH)

\* C10, amended: when the session holds a token, every draft with a device
\* name longer than 23 characters is rejected with the length error, whatever
\* the other draft fields are (without a token the answer is "Please login
\* first."); and a name of exactly 23 characters is never rejected with the
\* length error.
C10_LengthError ==
    Validated =>
        /\ (Len(deviceName) > DEVICE_NAME_MAX /\ token # "") =>
               toast = ErrorToast(ERR_DEVICE_LENGTH)
        /\ (Len(deviceName) > DEVICE_NAME_MAX /\ token = "") =>
               toast = ErrorToast(ERR_LOGIN)
        /\ Len(deviceName) = DEVICE_NAME_MAX =>
               toast # ErrorToast(ERR_DEVICE_LENGTH)

\* a name of 24 characters was rejected for its length in a draft whose URL,
\* range and copies are wrong as well
C10_Witness ==
    /\ Len(deviceName) = DEVICE_NAME_MAX + 1
    /\ fileUrl = "" /\ rangeStart = "a" /\ rangeEnd = ""
    /\ copies = Num(COPIES_MAX + 1)
    /\ toast = ErrorToast(ERR_DEVICE_LENGTH)

\* a name of 23 characters passed the length rule: the draft was sent
C10_WitnessBoundary ==
    /\ Len(deviceName) = DEVICE_NAME_MAX
    /\ Sent

-----------------------------------------------------------------------------
(* C11 *)

\* copies lies in [1, 100]
CopiesInBounds ==
    ~copies.nan /\ copies.val >= COPIES_MIN /\ copies.val <= COPIES_MAX

\* the range fields are both unset, or both set to integers >= 1 in order
PassesRangeRules ==
    \/ ~IsSet(rangeStart) /\ ~IsSet(rangeEnd)
    \/ /\ IsSet(rangeStart) /\ IsSet(rangeEnd)
       /\ PositiveInteger(rangeStart) /\ PositiveInteger(rangeEnd)
       /\ ToNumber(rangeEnd).val >= ToNumber(rangeStart).val

\* C11: every draft whose copies lie outside [1, 100] is rejected, with the
\* copies error when it passes all other rules; every draft whose copies lie
\* within [1, 100], 1 and 100 included, and which passes all other rules is
\* accepted: no error is shown and the request is sent.
C11_CopiesBounds ==
    Validated =>
        /\ ~CopiesInBounds => (Rejected /\ ~Sent)
        /\ (~CopiesInBounds /\ PassesEarlierRules /\ PassesRangeRules) =>
               toast = ErrorToast(ERR_COPIES)
        /\ (CopiesInBounds /\ PassesEarlierRules /\ PassesRangeRules) =>
               (Sent /\ ~Rejected)

\* 101 copies were rejected in a draft that is right otherwise
C11_Witness ==
    /\ PassesEarlierRules /\ PassesRangeRules
    /\ copies = Num(COPIES_MAX + 1)
    /\ toast = ErrorToast(ERR_COPIES)

\* 100 copies and 1 copy were accepted
C11_WitnessBoundary ==
    /\ copies \in {Num(COPIES_MIN), Num(COPIES_MAX)}
    /\ Sent /\ ~Rejected

-----------------------------------------------------------------------------
(* C12 *)

\* the error of the first rule the draft violates, in the order of the rules
FirstViolated ==
    IF token = "" THEN ERR_LOGIN
    ELSE IF deviceName = "" THEN ERR_DEVICE_REQUIRED
    ELSE IF Len(deviceName) > DEVICE_NAME_MAX THEN ERR_DEVICE_LENGTH
    ELSE IF fileUrl = "" THEN ERR_FILE_REQUIRED
    ELSE IF IsSet(rangeStart) # IsSet(rangeEnd) THEN ERR_RANGE_BOTH
    ELSE IF IsSet(rangeStart) /\ ~PositiveInteger(rangeStart)
         THEN ERR_RANGE_START
    ELSE IF IsSet(rangeEnd) /\ ~PositiveInteger(rangeEnd) THEN ERR_RANGE_END
    ELSE IF IsSet(rangeStart)
            /\ ToNumber(rangeEnd).val < ToNumber(rangeStart).val
         THEN ERR_RANGE_ORDER
    ELSE IF ~CopiesInBounds THEN ERR_COPIES
    ELSE Null

\* the number of rule groups (1) to (7) the draft violates
Violations ==
    LET bothSet == IsSet(rangeStart) /\ IsSet(rangeEnd)
        count(b) == IF b THEN 1 ELSE 0
    IN  count(token = "") + count(deviceName = "")
        + count(Len(deviceName) > DEVICE_NAME_MAX) + count(fileUrl = "")
        + count(IsSet(rangeStart) # IsSet(rangeEnd))
        + count(bothSet /\ ~PassesRangeRules)
        + count(~CopiesInBounds)

\* C12: the validator reports the first violated rule in the order token,
\* device name present, device name length, file URL, range set together,
\* range start, range end, range order, copies; and it accepts the draft
\* (no error, request sent) exactly when no rule is violated.
C12_RuleOrder ==
    Validated =>
        /\ FirstViolated # Null => (toast = ErrorToast(FirstViolated) /\ ~Sent)
        /\ FirstViolated = Null => (Sent /\ ~Rejected)
        /\ (Violations = 0) <=> (Sent /\ ~Rejected)

\* a draft that violates four rules at once got the error of the first
C12_Witness ==
    /\ Violations >= 4
    /\ token # "" /\ deviceName = "" /\ fileUrl = ""
    /\ copies = Num(COPIES_MIN - 1)
    /\ toast = ErrorToast(ERR_DEVICE_REQUIRED)

\* a draft whose range and copies are both wrong got the range error
C12_WitnessRangeBeforeCopies ==
    /\ PassesEarlierRules
    /\ rangeStart = "0" /\ rangeEnd = "a"
    /\ ~CopiesInBounds
    /\ toast = ErrorToast(ERR_RANGE_START)

-----------------------------------------------------------------------------
(* C13 *)

\* the path of the request in flight
PathOf(r) == IF r.kind = "login" THEN LOGIN_PATH
             ELSE IF r.kind = "print" THEN PRINT_PATH
             ELSE PING_PATH

\* the body of the answer decodes as JSON
Decodes(res) == JSONparse(res.text).ok

\* field k of the decoded body, "-" when the body does not decode or has no
\* such field
FieldOrDash(res, k) ==
    IF Decodes(res) /\ Has(JSONparse(res.text).val, k)
    THEN JSONparse(res.text).val.f[k]
    ELSE "-"

\* C13: on a 2xx answer hsFetch never raises.  It hands its caller the
\* decoded body when the body decodes and the body text itself when it does
\* not, and sets no toast; so a submission answered 2xx always ends in the
\* success toast, built from the fields of the decoded body, and a login
\* answered 2xx fails only for a missing token, never for the decoding.
C13_OkNeverRaises ==
    [][ \A res \in AllAnswers :
          Is2xx(res) =>
            /\ \A i \in DOMAIN inflight :
                 LET o == hsFetch(card, PathOf(inflight[i]), res)
                 IN  /\ ~o.threw
                     /\ o.toast = NoToast
                     /\ Decodes(res) => o.out = JSONparse(res.text).val
                     /\ ~Decodes(res) => o.out = JSStr(res.text)
            /\ PrintAnswered({res}) =>
                 /\ toast' = SuccessToast(
                        "Created. Txn " \o FieldOrDash(res, "transaction_id")
                        \o ", code " \o FieldOrDash(res, "code"))
                 /\ stage' = "ready"
            /\ (LoginAnswered({res}) /\ ~HasToken(res)) =>
                 toast' \in {toast, ErrorToast("Token missing in response")}
      ]_vars

\* a submission was answered 2xx with a body that does not name the job (one
\* that does not decode among them) and ended in the success toast
C13_Witness ==
    /\ toast = SuccessToast("Created. Txn -, code -")
    /\ stage = "ready"
    /\ inflight = <<>>

\* a submission was answered 2xx with a body that decodes
C13_WitnessDecoded ==
    /\ toast = SuccessToast("Created. Txn TX1, code C7")
    /\ stage = "ready"

-----------------------------------------------------------------------------
(* C14 *)

\* the tokens /api/login hands out in the card flow
IssuedTokens == {TokenOf(res) : res \in {a \in FlowAnswers : HasToken(a)}}

\* C14: every createPrintjob request carries "Bearer <token>" of a token that
\* an earlier successful login of the session returned.  A request is sent
\* only while the session holds a non-empty token and is past the login
\* form, its Authorization header is "Bearer " followed by that token, and
\* the session token only ever changes to the token of a login answered 2xx
\* with a non-empty token.
C14_BearerOfSession ==
    [][ /\ \A i \in DOMAIN inflight :
             inflight[i].kind = "print" =>
                 \E t \in IssuedTokens :
                     inflight[i].authorization = "Bearer " \o t
        /\ PrintSent =>
             /\ token # "" /\ token \in IssuedTokens
             /\ stage # "login"
             /\ inflight'[Len(inflight')].authorization = "Bearer " \o token
        /\ token' # token =>
             \E res \in FlowAnswers :
                 HasToken(res) /\ LoginAnswered({res}) /\ token' = TokenOf(res)
      ]_vars

\* a createPrintjob request is in flight with the token of the login
C14_Witness ==
    /\ token = "T1"
    /\ \E i \in DOMAIN inflight :
         /\ inflight[i].kind = "print"
         /\ inflight[i].authorization = "Bearer T1"

-----------------------------------------------------------------------------
(* C16 *)

\* the createPrintjob requests in flight
PrintsInFlight == {i \in DOMAIN inflight : inflight[i].kind = "print"}

\* C16: while a submission is in flight (stage = "sending") no further
\* submission is started, and at most one createPrintjob request is in
\* flight at any time.
C16_OneSubmission ==
    [][ /\ Cardinality(PrintsInFlight) <= 1
        /\ stage = "sending" => ~PrintSent ]_vars

-----------------------------------------------------------------------------
(* C17 *)

\* this step started a request of the given kind
Started(kind) ==
    /\ Len(inflight') = Len(inflight) + 1
    /\ inflight'[Len(inflight')].kind = kind
    /\ SubSeq(inflight', 1, Len(inflight)) = inflight

\* this step is the end of an outstanding call of the given kind
Completed(kind) ==
    \E i \in DOMAIN inflight :
        inflight[i].kind = kind /\ inflight' = Without(inflight, i)

\* C17: the token is written only by the completion of a successful login.
\* Field edits, rejected and accepted submissions, completed submissions,
\* debugPing (its start and its completion), closing the toast and failed
\* logins leave it as it is; a token that is not empty never becomes empty
\* again, and a stage other than "login" never becomes "login" again.
C17_TokenWrittenByLoginOnly ==
    [][ /\ token' # token =>
             \E res \in FlowAnswers :
                 HasToken(res) /\ LoginAnswered({res}) /\ token' = TokenOf(res)
        /\ (Completed("login") /\ token' # token) =>
             \A res \in FlowAnswers :
                 ~HasToken(res) => ~LoginAnswered({res})
        /\ (form' # form \/ credentials' # credentials) => token' = token
        /\ (toast' # toast /\ inflight' = inflight) => token' = token
        /\ (Started("print") \/ Completed("print")) => token' = token
        /\ (Started("ping") \/ Completed("ping")) => token' = token
        /\ token # "" => (token' # "" /\ stage' # "login")
        /\ stage # "login" => (stage' # "login" /\ token' # "")
      ]_vars

\* logged in, a ping was answered and a login failed afterwards: the token is
\* still there
C17_Witness ==
    /\ card = "HlaPrintCardView"
    /\ token = "T1"
    /\ stage = "ready"
    /\ toast.type = "error"
    /\ SubSeq(toast.msg, 1, 35) = "URL: https://hlaprint.com/api/login"
    /\ inflight = <<>>

\* a ping was answered while the session is logged in
C17_WitnessPing ==
    /\ token = "T1"
    /\ toast.type = "success" /\ SubSeq(toast.msg, 1, 5) = "Ping "

-----------------------------------------------------------------------------
(* C18 *)

\* C18: in every state the field handlers lead to, deviceName has at most 23
\* characters and copies lies in [1, 100]: the Copies handler maps whatever
\* is typed into [1, 100], and 0 and text that is not a number to 1.  So the
\* validator's answer for the draft on screen is never the length error or
\* the copies error, and neither is ever shown.
C18_HandlersKeepBounds ==
    /\ Len(deviceName) <= DEVICE_NAME_MAX
    /\ CopiesInBounds
    /\ \A v \in CopiesTyped :
         LET n == ToNumber(v)
             c == copiesOnChange(v)
         IN  /\ ~c.nan /\ c.val >= COPIES_MIN /\ c.val <= COPIES_MAX
             /\ (n.nan \/ n.val = 0) => c = Num(1)
    /\ DraftError \notin {ERR_DEVICE_LENGTH, ERR_COPIES}
    /\ toast \notin {ErrorToast(ERR_DEVICE_LENGTH), ErrorToast(ERR_COPIES)}

\* "101" was typed into Copies and clamped to 100, a name was typed, and the
\* submission went out
C18_Witness ==
    /\ copies = Num(COPIES_MAX)
    /\ deviceName = "Desk1"
    /\ Sent
    /\ FileOf(inflight[1]).copies = Num(COPIES_MAX)

\* a submission made through the form was rejected, by another rule
C18_WitnessRejected ==
    /\ deviceName = "Desk1"
    /\ toast = ErrorToast(ERR_RANGE_BOTH)

-----------------------------------------------------------------------------
(* C19 *)

\* the login r was started before the e-mail address was typed, so before
\* every login that carries the address
StartedBeforeTyping(r) == r.kind = "login" /\ r.body.email = ""

\* the token the session holds is the one of a login that carried the typed
\* address, which has completed
LaterLoginSucceeded == token = "T1"

\* C19: of two logins outstanding at once, the one started last decides the
\* token, in whatever order the answers arrive.  When the login started last
\* has succeeded already and the one started first succeeds after it, the
\* token stays the one of the login started last.
C19_LastStartedWins ==
    [][ \A i \in DOMAIN inflight :
          \A res \in AccountAnswers(inflight[i]) :
            (/\ StartedBeforeTyping(inflight[i])
             /\ LaterLoginSucceeded
             /\ HasToken(res)
             /\ LoginResumes(i, res))
            => token' = token ]_vars

-----------------------------------------------------------------------------
(* C20 *)

\* this step started a connect request
ConnectStarted ==
    /\ Len(connecting') = Len(connecting) + 1
    /\ SubSeq(connecting', 1, Len(connecting)) = connecting

\* the body of the answer decodes to an object with status "SUCCESS"
DecodedSuccess(res) ==
    /\ ~res.threw
    /\ JSONparse(res.text).ok
    /\ Has(JSONparse(res.text).val, "status")
    /\ JSONparse(res.text).val.f.status = "SUCCESS"

\* C20: connect is serialised by busy.  busy is true exactly while a connect
\* request is in flight, and at most one is; a connect starts only with busy
\* false and e-mail and password not empty, and carries them; and when the
\* request completes in any way (a SUCCESS body, another body, a body that
\* does not decode, an exception) busy is false, the status is set, and it
\* is "success" exactly when the decoded body has status "SUCCESS".
C20_ConnectSerialised ==
    [][ /\ busy <=> Len(connecting) > 0
        /\ Len(connecting) <= 1
        /\ ConnectStarted =>
             /\ ~busy /\ settingsEmail # "" /\ settingsPassword # ""
             /\ busy'
             /\ connecting'[Len(connecting')].body =
                    [email |-> settingsEmail, password |-> settingsPassword]
        /\ \A res \in SettingsAnswers :
             ConnectAnswered({res}) =>
                 /\ ~busy'
                 /\ connecting' = <<>>
                 /\ status' # NoStatus
                 /\ status'.type = "success" <=> DecodedSuccess(res)
      ]_vars

\* a connect was answered with a body that does not decode: the page is idle
\* again and shows the body as the error
C20_Witness ==
    /\ ~busy
    /\ connecting = <<>>
    /\ status = ErrorStatus(BODY_TEXT)

\* a connect is in flight
C20_WitnessBusy ==
    /\ busy
    /\ Len(connecting) = 1
    /\ status = NoStatus

\* a connect was answered SUCCESS
C20_WitnessSuccess ==
    /\ ~busy
    /\ status = SuccessStatus("Connected to HlaPrint.")

-----------------------------------------------------------------------------
(* C15 *)

\* C15: a non-2xx answer on any call (login, createPrintjob, the settings
\* connect) is surfaced as an error whatever its body holds: the toast, and
\* on the settings page the status, is an error, never a success, and the
\* session token is not set.
C15_Non2xxIsError ==
    [][ /\ \A res \in AllAnswers :
             (Non2xx(res) /\ (LoginAnswered({res}) \/ PrintAnswered({res})))
             => (toast'.type = "error" /\ token' = token)
        /\ \A res \in SettingsAnswers :
             (Non2xx(res) /\ ConnectAnswered({res}))
             => (status'.type = "error" /\ token' = token) ]_vars

====
